---------------------------- MODULE Spec2Model ----------------------------
(***************************************************************************)
(* A model of drf_multipart_renderer.MultipartRenderer: the renderer that  *)
(* turns a mapping of named values into a multipart/form-data body.        *)
(*                                                                         *)
(* Text (Python str) is a sequence of Unicode code points, bytes are a     *)
(* sequence of numbers 0..255.  A Python object that may be either is the  *)
(* record [py |-> "str" | "bytes", data |-> <<...>>].                      *)
(***************************************************************************)
EXTENDS Integers, Sequences, FiniteSets, TLC

(***************************************************************************)
(* Bounds of the model.                                                    *)
(***************************************************************************)
\* The size of an input mapping: the number of nodes (leaf values and
\* collections) of all its field values together.
MaxSize == 3
\* The length of the text of a str value in the class inputs.
MaxTextLen == 2

(***************************************************************************)
(* Literals of the source, as code points (all of them ASCII).             *)
(***************************************************************************)
\* 'BoUnDaRyStRiNgetpvelarptriznzsespgfmagoxpjpjluxkwqroqgsilzbdfsfgffddg'
BoundaryToken == <<66, 111, 85, 110, 68, 97, 82, 121, 83, 116, 82, 105, 78, 103, 101, 116, 112, 118, 101, 108, 97, 114, 112, 116, 114, 105, 122, 110, 122, 115, 101, 115, 112, 103, 102, 109, 97, 103, 111, 120, 112, 106, 112, 106, 108, 117, 120, 107, 119, 113, 114, 111, 113, 103, 115, 105, 108, 122, 98, 100, 102, 115, 102, 103, 102, 102, 100, 100, 103>>
\* "--"
Dashes == <<45, 45>>
\* 'Content-Disposition: form-data; name="'
DispositionPrefix == <<67, 111, 110, 116, 101, 110, 116, 45, 68, 105, 115, 112, 111, 115, 105, 116, 105, 111, 110, 58, 32, 102, 111, 114, 109, 45, 100, 97, 116, 97, 59, 32, 110, 97, 109, 101, 61, 34>>
\* '"'
Quote == <<34>>
\* '; filename="'
FilenamePrefix == <<59, 32, 102, 105, 108, 101, 110, 97, 109, 101, 61, 34>>
\* "Content-Type: "
ContentTypePrefix == <<67, 111, 110, 116, 101, 110, 116, 45, 84, 121, 112, 101, 58, 32>>
\* "application/json"
ApplicationJson == <<97, 112, 112, 108, 105, 99, 97, 116, 105, 111, 110, 47, 106, 115, 111, 110>>
\* "application/octet-stream"
OctetStream == <<97, 112, 112, 108, 105, 99, 97, 116, 105, 111, 110, 47, 111, 99, 116, 101, 116, 45, 115, 116, 114, 101, 97, 109>>
\* b"\r\n"
CRLF == <<13, 10>>
\* "The " and " type is not supported"
MsgThe == <<84, 104, 101, 32>>
MsgNotSupported == <<32, 116, 121, 112, 101, 32, 105, 115, 32, 110, 111, 116, 32, 115, 117, 112, 112, 111, 114, 116, 101, 100>>
\* "<class '" and "'>": how Python prints a type
ClassOpen == <<60, 99, 108, 97, 115, 115, 32, 39>>
ClassClose == <<39, 62>>

(***************************************************************************)
(* str and bytes.                                                          *)
(***************************************************************************)
Str(cps) == [py |-> "str", data |-> cps]
Bytes(bs) == [py |-> "bytes", data |-> bs]

\* One code point in UTF-8.
Utf8Char(cp) ==
    IF cp < 128 THEN <<cp>>
    ELSE IF cp < 2048 THEN <<192 + (cp \div 64), 128 + (cp % 64)>>
    ELSE IF cp < 65536
         THEN <<224 + (cp \div 4096), 128 + ((cp \div 64) % 64), 128 + (cp % 64)>>
    ELSE <<240 + (cp \div 262144), 128 + ((cp \div 4096) % 64),
           128 + ((cp \div 64) % 64), 128 + (cp % 64)>>

RECURSIVE Utf8Encode(_)
\* str.encode("utf-8"); an ASCII text is its own encoding.
Utf8Encode(cps) ==
    IF \A i \in 1..Len(cps) : cps[i] < 128 THEN cps
    ELSE Utf8Char(Head(cps)) \o Utf8Encode(Tail(cps))

\* to_bytes: force_bytes(s, "utf-8") returns bytes as they are and encodes str.
to_bytes(s) == IF s.py = "bytes" THEN s.data ELSE Utf8Encode(s.data)

RECURSIVE Join(_, _)
\* sep.join(lines)
Join(sep, ls) ==
    IF ls = <<>> THEN <<>>
    ELSE IF Len(ls) = 1 THEN ls[1]
    ELSE ls[1] \o sep \o Join(sep, Tail(ls))

RECURSIVE Digits(_)
\* The decimal digits of a natural number.
Digits(n) == IF n < 10 THEN <<48 + n>> ELSE Digits(n \div 10) \o <<48 + (n % 10)>>

\* The index of the last occurrence of ch in s, 0 when there is none.
LastIndex(s, ch) ==
    LET at == {i \in 1..Len(s) : s[i] = ch}
    IN  IF at = {} THEN 0 ELSE CHOOSE i \in at : \A j \in at : j <= i

\* os.path.basename: what follows the last "/".
Basename(p) == SubSeq(p, LastIndex(p, 47) + 1, Len(p))

\* posixpath.splitext(name)[1]: from the last "." on, unless only dots come
\* before it.
Extension(name) ==
    LET dot == LastIndex(name, 46)
    IN  IF dot > 0 /\ \E j \in 1..(dot - 1) : name[j] # 46
        THEN SubSeq(name, dot, Len(name))
        ELSE <<>>

\* An optional text: Python's None or a str.
None == [some |-> FALSE, s |-> <<>>]
Some(s) == [some |-> TRUE, s |-> s]

\* mimetypes.guess_type(filename)[0], for the extensions of the model.
GuessType(filename) ==
    LET ext == Extension(filename)
    IN  IF ext = <<46, 106, 112, 103>> THEN Some(<<105, 109, 97, 103, 101, 47, 106, 112, 101, 103>>)  \* .jpg image/jpeg
        ELSE IF ext = <<46, 116, 120, 116>> THEN Some(<<116, 101, 120, 116, 47, 112, 108, 97, 105, 110>>)  \* .txt text/plain
        ELSE None

(***************************************************************************)
(* Python values.  A value is the record                                   *)
(*   [cls   |-> its runtime class,                                         *)
(*    text  |-> the text of a str,                                         *)
(*    num   |-> the number of an int or bool, ten times that of a float,   *)
(*    sid   |-> the stream a file object reads (0: none),                  *)
(*    items |-> the elements of a collection, the entries of a dict]       *)
(* and an entry of a dict is the record of class "entry" whose text is     *)
(* the entry's key and whose one item is the entry's value.                *)
(***************************************************************************)
Value(cls, text, num, sid, items) ==
    [cls |-> cls, text |-> text, num |-> num, sid |-> sid, items |-> items]
StrVal(cps) == Value("str", cps, 0, 0, <<>>)
IntVal(n) == Value("int", <<>>, n, 0, <<>>)
FloatVal(tenths) == Value("float", <<>>, tenths, 0, <<>>)
BoolVal(b) == Value("bool", <<>>, IF b THEN 1 ELSE 0, 0, <<>>)
NoneVal == Value("NoneType", <<>>, 0, 0, <<>>)
Entry(k, v) == Value("entry", k, 0, 0, <<v>>)
DictVal(entries) == Value("dict", <<>>, 0, 0, entries)
FileVal(sid) == Value("BufferedReader", <<>>, 0, sid, <<>>)
Coll(cls, items) == Value(cls, <<>>, 0, 0, items)
FuncVal == Value("function", <<>>, 0, 0, <<>>)

\* The runtime classes of the model: the classes each one inherits from
\* (itself included), whether it is iterable (has __iter__), what its "read"
\* attribute is, and how Python prints it.
\*   StrReader, DictReader: subclasses of str and dict with a read() method;
\*   Reader: an object with a read() method and nothing else;
\*   ReadAttr: an object whose "read" attribute is not callable.
ClassInfo ==
    [str            |-> [mro |-> {"str"}, iter |-> TRUE, read |-> "absent",
                         repr |-> <<115, 116, 114>>],
     StrReader      |-> [mro |-> {"StrReader", "str"}, iter |-> TRUE, read |-> "callable",
                         repr |-> <<116, 101, 115, 116, 115, 46, 83, 116, 114, 82, 101, 97, 100, 101, 114>>],
     int            |-> [mro |-> {"int"}, iter |-> FALSE, read |-> "absent",
                         repr |-> <<105, 110, 116>>],
     float          |-> [mro |-> {"float"}, iter |-> FALSE, read |-> "absent",
                         repr |-> <<102, 108, 111, 97, 116>>],
     bool           |-> [mro |-> {"bool", "int"}, iter |-> FALSE, read |-> "absent",
                         repr |-> <<98, 111, 111, 108>>],
     NoneType       |-> [mro |-> {"NoneType"}, iter |-> FALSE, read |-> "absent",
                         repr |-> <<78, 111, 110, 101, 84, 121, 112, 101>>],
     dict           |-> [mro |-> {"dict"}, iter |-> TRUE, read |-> "absent",
                         repr |-> <<100, 105, 99, 116>>],
     DictReader     |-> [mro |-> {"DictReader", "dict"}, iter |-> TRUE, read |-> "callable",
                         repr |-> <<116, 101, 115, 116, 115, 46, 68, 105, 99, 116, 82, 101, 97, 100, 101, 114>>],
     BufferedReader |-> [mro |-> {"BufferedReader"}, iter |-> TRUE, read |-> "callable",
                         repr |-> <<95, 105, 111, 46, 66, 117, 102, 102, 101, 114, 101, 100, 82, 101, 97, 100, 101, 114>>],
     Reader         |-> [mro |-> {"Reader"}, iter |-> FALSE, read |-> "callable",
                         repr |-> <<116, 101, 115, 116, 115, 46, 82, 101, 97, 100, 101, 114>>],
     ReadAttr       |-> [mro |-> {"ReadAttr"}, iter |-> FALSE, read |-> "other",
                         repr |-> <<116, 101, 115, 116, 115, 46, 82, 101, 97, 100, 65, 116, 116, 114>>],
     list           |-> [mro |-> {"list"}, iter |-> TRUE, read |-> "absent",
                         repr |-> <<108, 105, 115, 116>>],
     tuple          |-> [mro |-> {"tuple"}, iter |-> TRUE, read |-> "absent",
                         repr |-> <<116, 117, 112, 108, 101>>],
     generator      |-> [mro |-> {"generator"}, iter |-> TRUE, read |-> "absent",
                         repr |-> <<103, 101, 110, 101, 114, 97, 116, 111, 114>>],
     function       |-> [mro |-> {"function"}, iter |-> FALSE, read |-> "absent",
                         repr |-> <<102, 117, 110, 99, 116, 105, 111, 110>>],
     object         |-> [mro |-> {"object"}, iter |-> FALSE, read |-> "absent",
                         repr |-> <<111, 98, 106, 101, 99, 116>>]]

\* isinstance(val, A | B | ...)
IsInstance(val, classes) == ClassInfo[val.cls].mro \cap classes # {}

\* isinstance(val, collections.abc.Iterable)
IsIterable(val) == ClassInfo[val.cls].iter

\* is_file: hasattr(thing, "read") and callable(thing.read)
is_file(thing) ==
    ClassInfo[thing.cls].read # "absent" /\ ClassInfo[thing.cls].read = "callable"

\* f"{type(val)}"
TypeRepr(val) == ClassOpen \o ClassInfo[val.cls].repr \o ClassClose

(***************************************************************************)
(* JSONRenderer().render(val) of rest_framework, with its default          *)
(* settings: None gives b"", anything else json.dumps with the separators  *)
(* "," and ":" and ensure_ascii off, encoded in UTF-8.  The texts of the   *)
(* model hold no character that JSON escapes.                              *)
(***************************************************************************)
RECURSIVE JsonDumps(_)
RECURSIVE JsonJoin(_)
JsonDumps(val) ==
    IF val.cls = "entry"
    THEN Quote \o val.text \o Quote \o <<58>> \o JsonDumps(val.items[1])
    ELSE IF IsInstance(val, {"str"}) THEN Quote \o val.text \o Quote
    ELSE IF IsInstance(val, {"bool"})
         THEN (IF val.num = 1 THEN <<116, 114, 117, 101>> ELSE <<102, 97, 108, 115, 101>>)
    ELSE IF IsInstance(val, {"int"}) THEN Digits(val.num)
    ELSE IF IsInstance(val, {"float"})
         THEN Digits(val.num \div 10) \o <<46>> \o Digits(val.num % 10)
    ELSE IF val.cls = "NoneType" THEN <<110, 117, 108, 108>>
    ELSE IF IsInstance(val, {"dict"}) THEN <<123>> \o JsonJoin(val.items) \o <<125>>
    ELSE <<91>> \o JsonJoin(val.items) \o <<93>>
JsonJoin(items) ==
    IF items = <<>> THEN <<>>
    ELSE IF Len(items) = 1 THEN JsonDumps(items[1])
    ELSE JsonDumps(items[1]) \o <<44>> \o JsonJoin(Tail(items))

JSONRender(val) ==
    IF val.cls = "NoneType" THEN Bytes(<<>>) ELSE Bytes(Utf8Encode(JsonDumps(val)))

(***************************************************************************)
(* The encoders.  Each gives the lines of one part; b is self.boundary.    *)
(***************************************************************************)
\* f"--{self.boundary}"
BoundaryLine(b) == Str(Dashes \o b)

\* f'Content-Disposition: form-data; name="{key}"'
Disposition(key) == Str(DispositionPrefix \o key \o Quote)

\* A plausible slip: text/plain stated for a string part.
EncodeStrWithType(b, key, val) ==
    <<to_bytes(BoundaryLine(b)), to_bytes(Disposition(key)),
      to_bytes(Str(ContentTypePrefix \o <<116, 101, 120, 116, 47, 112, 108, 97, 105, 110>>)),
      to_bytes(Bytes(<<>>)), to_bytes(Str(val.text))>>

\* encode_str: the lines it extends the buffer with.
encode_str(b, key, val) ==
    <<to_bytes(BoundaryLine(b)), to_bytes(Disposition(key)),
      to_bytes(Bytes(<<>>)), to_bytes(Str(val.text))>>

\* encode_json: the lines it extends the buffer with.
encode_json(b, key, val) ==
    <<to_bytes(BoundaryLine(b)), to_bytes(Disposition(key)),
      to_bytes(Str(ContentTypePrefix \o ApplicationJson)),
      to_bytes(Bytes(<<>>)), to_bytes(JSONRender(val))>>

(***************************************************************************)
(* Streams.  A stream object is the record                                 *)
(*   [name    |-> its "name" attribute: kind "absent", "int" or "str",     *)
(*    ctype   |-> its "content_type" attribute: kind "absent", "none" or   *)
(*                "str",                                                   *)
(*    content |-> the bytes of the file,                                   *)
(*    pos     |-> the position of the next read,                           *)
(*    reads   |-> how many times read() was called]                        *)
(***************************************************************************)
Attr(kind, s) == [kind |-> kind, s |-> s]
Stream(name, ctype, content, pos) ==
    [name |-> name, ctype |-> ctype, content |-> content, pos |-> pos, reads |-> 0]

\* file.read(): the bytes from the position to the end.
ReadBytes(f) == Bytes(SubSeq(f.content, f.pos + 1, Len(f.content)))

\* A read that rewinds first and leaves the position alone.
AfterReadRewound(f) == [f EXCEPT !.reads = @ + 1]

\* The stream after file.read(): at its end.
AfterRead(f) == [f EXCEPT !.pos = Len(f.content), !.reads = @ + 1]

\* The filename of encode_file: None, or the base name of a textual name.
FileName(f) == IF f.name.kind = "str" THEN Some(Basename(f.name.s)) ELSE None

\* A plausible slip: the guess from the name wins over content_type.
ContentTypeGuessFirst(f) ==
    LET filename == FileName(f)
        guess == IF filename.some /\ filename.s # <<>> THEN GuessType(filename.s) ELSE None
        ct == IF guess.some THEN guess
              ELSE IF f.ctype.kind = "str" THEN Some(f.ctype.s) ELSE None
    IN  IF ~ct.some THEN OctetStream ELSE ct.s

\* The content type of encode_file.
ContentType(f) ==
    LET filename == FileName(f)
        ct == IF f.ctype.kind # "absent"
              THEN (IF f.ctype.kind = "none" THEN None ELSE Some(f.ctype.s))
              ELSE IF filename.some /\ filename.s # <<>> THEN GuessType(filename.s)
              ELSE None
    IN  IF ~ct.some THEN OctetStream ELSE ct.s

\* encode_file: the lines it returns, for the stream f as it is before the read.
encode_file(b, key, f) ==
    LET filename == FileName(f)
    IN  <<to_bytes(BoundaryLine(b)),
          to_bytes(Str(DispositionPrefix \o key \o Quote \o
                       (IF filename.some /\ filename.s # <<>>
                        THEN FilenamePrefix \o filename.s \o Quote ELSE <<>>))),
          to_bytes(Str(ContentTypePrefix \o ContentType(f))),
          to_bytes(Bytes(<<>>)),
          to_bytes(ReadBytes(f))>>

(***************************************************************************)
(* The state.  Every variable but boundary, streams0 and streams is a      *)
(* function of the render call: a call's arguments and locals.             *)
(***************************************************************************)
VARIABLES
    boundary,   \* MultipartRenderer.boundary, read by every call
    data,       \* data[c]: the mapping given to call c, a sequence of fields
    streams0,   \* the stream objects as they were when the calls began
    streams,    \* the stream objects, by stream id
    pc,         \* pc[c]: "run", "done" (returned) or "raised"
    idx,        \* idx[c]: the next field of data.items() in the loop of render
    stack,      \* stack[c]: the values add_lines has still to handle, first first
    lines,      \* lines[c]: the local list "lines" of render
    result,     \* result[c]: what call c returned
    error       \* error[c]: the exception call c raised

vars == <<boundary, data, streams0, streams, pc, idx, stack, lines, result, error>>

Field(key, val) == [key |-> key, val |-> val]

\* A value add_lines has still to handle under a key; elem says that it is
\* the item of the loop "for item in val", not the argument of a call made
\* by render.
Frame(key, val, elem) == [key |-> key, val |-> val, elem |-> elem]

NoResult == [has |-> FALSE, bytes |-> <<>>]
NoError == [exc |-> "none", msg |-> <<>>]

\* A plausible slip: the iterable test made before the file test.
ClassifyIterableFirst(val) ==
    IF IsInstance(val, {"str"}) THEN "str"
    ELSE IF IsInstance(val, {"int", "float", "bool", "dict"}) \/ val.cls = "NoneType"
         THEN "json"
    ELSE IF IsIterable(val) THEN "iter"
    ELSE IF is_file(val) THEN "file"
    ELSE "raise"

\* The branch add_lines takes for val.
Classify(val) ==
    IF IsInstance(val, {"str"}) THEN "str"
    ELSE IF IsInstance(val, {"int", "float", "bool", "dict"}) \/ val.cls = "NoneType"
         THEN "json"
    ELSE IF is_file(val) THEN "file"
    ELSE IF IsIterable(val) THEN "iter"
    ELSE "raise"

\* A plausible slip: only a list, not a tuple, is kept whole.
BranchListOnly(fr) ==
    IF fr.elem /\ IsInstance(fr.val, {"list"}) THEN "json" ELSE Classify(fr.val)

\* What is done with a frame: the body of the loop in add_lines sends a list
\* or tuple item to encode_json and any other item to add_lines.
Branch(fr) ==
    IF fr.elem /\ IsInstance(fr.val, {"list", "tuple"}) THEN "json" ELSE Classify(fr.val)

RECURSIVE ItemFrames(_, _)
\* The items of "for item in val", each under the key of the collection.
ItemFrames(key, items) ==
    IF items = <<>> THEN <<>>
    ELSE <<Frame(key, Head(items), TRUE)>> \o ItemFrames(key, Tail(items))

\* A plausible slip: one list shared by every call.
ExtendShared(ls, c, new) == [x \in DOMAIN ls |-> ls[x] \o new]

\* lines.extend(new) on the local list of call c.
Extend(ls, c, new) == [ls EXCEPT ![c] = @ \o new]

\* A plausible slip: the field name put in the message as well.
MessageWithKey(key, val) ==
    MsgThe \o TypeRepr(val) \o MsgNotSupported \o <<58, 32>> \o key

\* f"The {type(val)} type is not supported"
UnsupportedMessage(key, val) == MsgThe \o TypeRepr(val) \o MsgNotSupported

\* A plausible slip: no empty line after the closing boundary.
ClosingNoEmptyLine(b) == <<to_bytes(Str(Dashes \o b \o Dashes))>>

\* [to_bytes(f"--{self.boundary}--"), b""]
ClosingLines(b) == <<to_bytes(Str(Dashes \o b \o Dashes)), to_bytes(Bytes(<<>>))>>

Running(c) == pc[c] = "run"
Top(c) == Head(stack[c])
Dispatching(c, br) == Running(c) /\ stack[c] # <<>> /\ Branch(Top(c)) = br

\* render: "for key, val in data.items(): self.add_lines(lines, key, val)".
NextField(c) ==
    /\ Running(c) /\ stack[c] = <<>> /\ idx[c] <= Len(data[c])
    /\ stack' = [stack EXCEPT ![c] = <<Frame(data[c][idx[c]].key, data[c][idx[c]].val, FALSE)>>]
    /\ idx' = [idx EXCEPT ![c] = @ + 1]
    /\ UNCHANGED <<boundary, data, streams0, streams, pc, lines, result, error>>

\* add_lines, the str branch.
AddStr(c) ==
    /\ Dispatching(c, "str")
    /\ lines' = Extend(lines, c, encode_str(boundary, Top(c).key, Top(c).val))
    /\ stack' = [stack EXCEPT ![c] = Tail(@)]
    /\ UNCHANGED <<boundary, data, streams0, streams, pc, idx, result, error>>

\* add_lines, the JSON branch, and the list or tuple item of the loop.
AddJson(c) ==
    /\ Dispatching(c, "json")
    /\ lines' = Extend(lines, c, encode_json(boundary, Top(c).key, Top(c).val))
    /\ stack' = [stack EXCEPT ![c] = Tail(@)]
    /\ UNCHANGED <<boundary, data, streams0, streams, pc, idx, result, error>>

\* add_lines, the file branch: encode_file reads the stream to its end.
AddFile(c) ==
    /\ Dispatching(c, "file")
    /\ lines' = Extend(lines, c, encode_file(boundary, Top(c).key, streams[Top(c).val.sid]))
    /\ streams' = [streams EXCEPT ![Top(c).val.sid] = AfterRead(@)]
    /\ stack' = [stack EXCEPT ![c] = Tail(@)]
    /\ UNCHANGED <<boundary, data, streams0, pc, idx, result, error>>

\* add_lines, the iterable branch: the items are handled in order before
\* anything that follows the collection.
Iterate(c) ==
    /\ Dispatching(c, "iter")
    /\ stack' = [stack EXCEPT ![c] = ItemFrames(Top(c).key, Top(c).val.items) \o Tail(@)]
    /\ UNCHANGED <<boundary, data, streams0, streams, pc, idx, lines, result, error>>

\* A plausible slip: a value of no supported kind is skipped.
RaiseSkip(c) ==
    /\ Dispatching(c, "raise")
    /\ stack' = [stack EXCEPT ![c] = Tail(@)]
    /\ UNCHANGED <<boundary, data, streams0, streams, pc, idx, lines, result, error>>

\* add_lines, the last branch: NotImplementedError leaves add_lines and render,
\* which catches nothing; the frame that raised stays on the stack.
Raise(c) ==
    /\ Dispatching(c, "raise")
    /\ pc' = [pc EXCEPT ![c] = "raised"]
    /\ error' = [error EXCEPT ![c] = [exc |-> "NotImplementedError",
                                      msg |-> UnsupportedMessage(Top(c).key, Top(c).val)]]
    /\ UNCHANGED <<boundary, data, streams0, streams, idx, stack, lines, result>>

\* render, after the loop: the closing lines and the join.
Finish(c) ==
    /\ Running(c) /\ stack[c] = <<>> /\ idx[c] > Len(data[c])
    /\ lines' = Extend(lines, c, ClosingLines(boundary))
    /\ result' = [result EXCEPT ![c] = [has |-> TRUE, bytes |-> Join(CRLF, lines'[c])]]
    /\ pc' = [pc EXCEPT ![c] = "done"]
    /\ UNCHANGED <<boundary, data, streams0, streams, idx, stack, error>>

Next ==
    \/ \E c \in DOMAIN pc : NextField(c)
    \/ \E c \in DOMAIN pc : AddStr(c)
    \/ \E c \in DOMAIN pc : AddJson(c)
    \/ \E c \in DOMAIN pc : AddFile(c)
    \/ \E c \in DOMAIN pc : Iterate(c)
    \/ \E c \in DOMAIN pc : Raise(c)
    \/ \E c \in DOMAIN pc : Finish(c)

(***************************************************************************)
(* The inputs.                                                             *)
(***************************************************************************)
\* The field names 'title' and 'file' of the tests.
KeyTitle == <<116, 105, 116, 108, 101>>
KeyFile == <<102, 105, 108, 101>>
Keys == {KeyTitle, KeyFile}

\* "Aé": a text whose UTF-8 encoding is not its code points.
SampleText == <<65, 233>>

\* b"test image data"
ImageData == <<116, 101, 115, 116, 32, 105, 109, 97, 103, 101, 32, 100, 97, 116, 97>>

\* Stream 1 is the named temporary file of test_render_file, at its start;
\* stream 2 is a tempfile.TemporaryFile, whose name is a file descriptor,
\* with one byte already read.
DefaultStreams ==
    <<Stream(Attr("str", <<47, 116, 109, 112, 47, 102, 111, 111, 46, 106, 112, 103>>),  \* /tmp/foo.jpg
             Attr("absent", <<>>), ImageData, 0),
      Stream(Attr("int", <<>>), Attr("absent", <<>>), <<200, 7, 255>>, 1)>>

ListClasses == {"list", "tuple"}
CollClasses == {"list", "tuple", "generator"}

\* The leaves of the general inputs: a text, a number, the two streams and a
\* function, which no branch of add_lines supports.
Leaves == {StrVal(SampleText), IntVal(33), FileVal(1), FileVal(2), FuncVal}
\* The leaves of a list or tuple met as an item, which is handed to the JSON
\* renderer whole: values the JSON renderer serializes.
JsonLeaves == {StrVal(SampleText), IntVal(33)}

RECURSIVE Tree(_)
RECURSIVE Forest(_)
RECURSIVE JTree(_)
RECURSIVE JForest(_)
\* The JSON-serializable values of n nodes: nested lists and tuples.
JTree(n) ==
    IF n = 1 THEN JsonLeaves \cup {Coll(k, <<>>) : k \in ListClasses}
    ELSE {Coll(k, f) : k \in ListClasses, f \in JForest(n - 1)}
JForest(n) ==
    IF n = 0 THEN {<<>>}
    ELSE UNION {{<<t>> \o f : t \in JTree(m), f \in JForest(n - m)} : m \in 1..n}
\* The values of n nodes an item of a collection may be.
Item(n) ==
    {t \in Tree(n) : t.cls \notin ListClasses} \cup {t \in JTree(n) : t.cls \in ListClasses}
\* The sequences of items of n nodes together.
Forest(n) ==
    IF n = 0 THEN {<<>>}
    ELSE UNION {{<<t>> \o f : t \in Item(m), f \in Forest(n - m)} : m \in 1..n}
\* The values of n nodes.
Tree(n) ==
    IF n = 1 THEN Leaves \cup {Coll(k, <<>>) : k \in CollClasses}
    ELSE {Coll(k, f) : k \in CollClasses, f \in Forest(n - 1)}

\* The general inputs: the mappings of at most two fields and MaxSize nodes,
\* over the default streams.
GeneralData ==
    {<<>>}
    \cup UNION {{<<Field(k, v)>> : k \in Keys, v \in Tree(n)} : n \in 1..MaxSize}
    \cup UNION {UNION {{<<Field(ks[1], v1), Field(ks[2], v2)>> :
                            ks \in {p \in Keys \X Keys : p[1] # p[2]},
                            v1 \in Tree(n), v2 \in Tree(m)}
                       : m \in 1..(MaxSize - n)} : n \in 1..MaxSize}

RECURSIVE Texts(_)
\* The texts of n characters over "A", "é" and the euro sign.
Texts(n) ==
    IF n = 0 THEN {<<>>}
    ELSE {<<ch>> \o t : ch \in {65, 233, 8364}, t \in Texts(n - 1)}

\* {"a": 3, "b": 2}, the entries of the dict of test_render_fields.
SampleEntries == <<Entry(<<97>>, IntVal(3)), Entry(<<98>>, IntVal(2))>>

\* The class inputs: a value of every class, alone or as the one item of a
\* collection.
ClassValues ==
    {StrVal(t) : t \in UNION {Texts(n) : n \in 0..MaxTextLen}}
    \cup {Value("StrReader", SampleText, 0, 0, <<>>),
          IntVal(0), IntVal(33), FloatVal(15), BoolVal(TRUE), BoolVal(FALSE), NoneVal,
          DictVal(<<>>), DictVal(SampleEntries),
          Value("DictReader", <<>>, 0, 0, SampleEntries),
          FileVal(1), Value("Reader", <<>>, 0, 2, <<>>), Value("ReadAttr", <<>>, 0, 0, <<>>),
          Coll("list", <<IntVal(1), StrVal(SampleText)>>),
          Coll("tuple", <<Coll("list", <<>>), IntVal(2)>>),
          Coll("generator", <<StrVal(SampleText), FileVal(2)>>),
          FuncVal, Value("object", <<>>, 0, 0, <<>>)}
ClassData ==
    {<<Field(KeyTitle, v)>> : v \in ClassValues}
    \cup {<<Field(KeyFile, Coll(k, <<v>>))>> : k \in CollClasses, v \in ClassValues}

\* The file inputs: one file field, over every shape of the stream's name and
\* content_type attributes.
FileNames ==
    {Attr("absent", <<>>), Attr("int", <<>>), Attr("str", <<>>),
     Attr("str", <<100, 105, 114, 47>>),                                  \* dir/
     Attr("str", <<47, 116, 109, 112, 47, 102, 111, 111, 46, 106, 112, 103>>),  \* /tmp/foo.jpg
     Attr("str", <<102, 111, 111, 46, 106, 112, 103>>),                   \* foo.jpg
     Attr("str", <<110, 111, 116, 101, 115, 46, 116, 120, 116>>),         \* notes.txt
     Attr("str", <<100, 97, 116, 97, 46, 122, 122>>),                     \* data.zz
     Attr("str", <<82, 69, 65, 68, 77, 69>>),                             \* README
     Attr("str", <<46, 106, 112, 103>>)}                                  \* .jpg
FileContentTypes ==
    {Attr("absent", <<>>), Attr("none", <<>>), Attr("str", <<>>),
     Attr("str", <<116, 101, 120, 116, 47, 99, 115, 118>>)}               \* text/csv
FileStreams ==
    {<<Stream(nm, ct, content, pos), DefaultStreams[2]>> :
        nm \in FileNames, ct \in FileContentTypes,
        content \in {<<>>, ImageData}, pos \in {0, 5}}

\* The field names 'description', 'number' and 'info' of the tests.
KeyDescription == <<100, 101, 115, 99, 114, 105, 112, 116, 105, 111, 110>>
KeyNumber == <<110, 117, 109, 98, 101, 114>>
KeyInfo == <<105, 110, 102, 111>>

\* The mapping of test_render_fields:
\* {'title': ['Test Item', {'a': 3, 'b': 2}], 'description': 'A simple test',
\*  'number': 33}
TestFieldsData ==
    <<Field(KeyTitle, Coll("list", <<StrVal(<<84, 101, 115, 116, 32, 73, 116, 101, 109>>),
                                     DictVal(SampleEntries)>>)),
      Field(KeyDescription, StrVal(<<65, 32, 115, 105, 109, 112, 108, 101, 32, 116, 101, 115, 116>>)),
      Field(KeyNumber, IntVal(33))>>

\* The mapping of test_render_file: {'info': 'test info', 'file': tmp}
TestFileData ==
    <<Field(KeyInfo, StrVal(<<116, 101, 115, 116, 32, 105, 110, 102, 111>>)),
      Field(KeyFile, FileVal(1))>>

\* The scenario inputs: the mappings of the tests, and mappings of more than
\* MaxSize nodes where a failure lies between two streams, where a stream
\* occurs twice, and where a generator is an item of a list.
ScenarioData ==
    {TestFieldsData, TestFileData,
     <<Field(KeyTitle, Coll("list", <<FileVal(1), FuncVal, FileVal(2)>>))>>,
     <<Field(KeyTitle, FileVal(2)),
       Field(KeyFile, Coll("generator", <<FuncVal, FileVal(1)>>))>>,
     <<Field(KeyTitle, FileVal(1)), Field(KeyInfo, FuncVal), Field(KeyFile, FileVal(2))>>,
     <<Field(KeyTitle, Coll("tuple", <<FileVal(1), IntVal(33), FileVal(1)>>)),
       Field(KeyFile, FileVal(2))>>,
     <<Field(KeyTitle, Coll("list", <<Coll("generator", <<StrVal(SampleText), IntVal(33)>>),
                                      Coll("tuple", <<IntVal(33), IntVal(0)>>)>>))>>,
     <<Field(KeyTitle,
             Coll("list", <<Coll("generator",
                                 <<Coll("generator", <<Coll("list", <<IntVal(1)>>)>>)>>)>>))>>}

Input(d, ss) == [data |-> d, streams |-> ss]

Inputs ==
    {Input(d, DefaultStreams) : d \in GeneralData \cup ClassData \cup ScenarioData}
    \cup {Input(<<Field(KeyFile, FileVal(1))>>, ss) :
             ss \in {x \in FileStreams : x[1].pos <= Len(x[1].content)}}

\* The state when the calls begin: ds[c] is the mapping of call c.
Begin(ds, ss) ==
    /\ boundary = BoundaryToken
    /\ data = ds
    /\ streams0 = ss
    /\ streams = ss
    /\ pc = [c \in DOMAIN ds |-> "run"]
    /\ idx = [c \in DOMAIN ds |-> 1]
    /\ stack = [c \in DOMAIN ds |-> <<>>]
    /\ lines = [c \in DOMAIN ds |-> <<>>]
    /\ result = [c \in DOMAIN ds |-> NoResult]
    /\ error = [c \in DOMAIN ds |-> NoError]

\* One call of render.
Init == \E inp \in Inputs : Begin(<<inp.data>>, inp.streams)

Spec == Init /\ [][Next]_vars

RECURSIVE OwnValue(_, _)
\* A value of call c of two concurrent calls: a text, a function, a list, a
\* generator or the file object of the call's own stream, stream c, and
\* nothing else inside it.
OwnValue(val, c) ==
    /\ val.cls \in {"str", "function", "list", "generator", "BufferedReader"}
    /\ val.cls = "BufferedReader" => val.sid = c
    /\ \A i \in 1..Len(val.items) : OwnValue(val.items[i], c)

\* The mappings of call c of two concurrent calls: one field, of fewer than
\* MaxSize nodes, that holds no stream but the call's own.
ConcurrentData(c) ==
    {<<Field(IF c = 1 THEN KeyTitle ELSE KeyFile, v)>> :
        v \in {t \in UNION {Tree(n) : n \in 1..(MaxSize - 1)} : OwnValue(t, c)}}

\* Two calls of render on one renderer, their steps interleaved.
InitConcurrent ==
    \E d1 \in ConcurrentData(1), d2 \in ConcurrentData(2) :
        Begin(<<d1, d2>>, DefaultStreams)

SpecConcurrent == InitConcurrent /\ [][Next]_vars

(***************************************************************************)
(* What the specification says of a render call, stated on the input and   *)
(* on the bytes of the buffer, apart from the operators above.             *)
(***************************************************************************)
Calls == DOMAIN pc

IsPrefix(p, q) == Len(p) <= Len(q) /\ SubSeq(q, 1, Len(p)) = p
IsSuffix(p, q) == Len(p) <= Len(q) /\ SubSeq(q, Len(q) - Len(p) + 1, Len(q)) = p
Contains(q, p) == \E i \in 0..(Len(q) - Len(p)) : SubSeq(q, i + 1, i + Len(p)) = p

\* The kind of a value by the precedence of the classifier: the first of
\* text, JSON, file, repeated that applies.
KindOf(val) ==
    IF "str" \in ClassInfo[val.cls].mro THEN "TEXT"
    ELSE IF ClassInfo[val.cls].mro \cap {"int", "float", "bool", "dict", "NoneType"} # {}
         THEN "JSON"
    ELSE IF ClassInfo[val.cls].read = "callable" THEN "FILE"
    ELSE IF ClassInfo[val.cls].iter THEN "REPEATED"
    ELSE "FAIL"

\* One value that is to become one part (or, of kind FAIL, to abort the call):
\* fi is the index of its field, item says it is a list or tuple kept whole.
Leaf(fi, key, kind, val, item) ==
    [fi |-> fi, key |-> key, kind |-> kind, val |-> val, item |-> item]

RECURSIVE LeavesOfValue(_, _, _, _)
RECURSIVE LeavesOfItems(_, _, _)
\* The leaves of a value in iteration order: a repeated value gives those of
\* its elements, where a list or tuple element is one JSON leaf.
LeavesOfValue(fi, key, val, isItem) ==
    IF isItem /\ val.cls \in ListClasses THEN <<Leaf(fi, key, "JSON", val, TRUE)>>
    ELSE IF KindOf(val) = "REPEATED" THEN LeavesOfItems(fi, key, val.items)
    ELSE <<Leaf(fi, key, KindOf(val), val, FALSE)>>
LeavesOfItems(fi, key, items) ==
    IF items = <<>> THEN <<>>
    ELSE LeavesOfValue(fi, key, Head(items), TRUE) \o LeavesOfItems(fi, key, Tail(items))

RECURSIVE LeavesFrom(_, _)
LeavesFrom(d, i) ==
    IF i > Len(d) THEN <<>>
    ELSE LeavesOfValue(i, d[i].key, d[i].val, FALSE) \o LeavesFrom(d, i + 1)
\* The leaves of a mapping, field after field.
LeavesOf(d) == LeavesFrom(d, 1)

\* The index of the first leaf that aborts the call, 0 when there is none.
FirstFail(lv) ==
    LET at == {j \in 1..Len(lv) : lv[j].kind = "FAIL"}
    IN  IF at = {} THEN 0 ELSE CHOOSE j \in at : \A k \in at : j <= k

\* The leaves that become parts: those before the first failure.
PartLeaves(d) ==
    LET lv == LeavesOf(d)
    IN  IF FirstFail(lv) = 0 THEN lv ELSE SubSeq(lv, 1, FirstFail(lv) - 1)

\* The bytes of an ASCII text.
Ascii(cps) == cps

\* The name and what follows it in a Content-Disposition line.
DispositionName(line) ==
    LET r == SubSeq(line, Len(DispositionPrefix) + 1, Len(line))
        q == CHOOSE i \in 1..Len(r) : r[i] = 34 /\ \A j \in 1..(i - 1) : r[j] # 34
    IN  [name |-> SubSeq(r, 1, q - 1), rest |-> SubSeq(r, q + 1, Len(r))]

WellFormedDisposition(line) ==
    /\ IsPrefix(Ascii(DispositionPrefix), line)
    /\ \E i \in (Len(DispositionPrefix) + 1)..Len(line) : line[i] = 34

RECURSIVE ParseParts(_, _)
\* The buffer read as parts: a boundary line, a Content-Disposition line, at
\* most one Content-Type line, an empty line, one body line.
ParseParts(ls, b) ==
    IF ls = <<>> THEN [ok |-> TRUE, parts |-> <<>>]
    ELSE IF Len(ls) >= 4 /\ ls[1] = Ascii(Dashes \o b) /\ WellFormedDisposition(ls[2])
            /\ ls[3] = <<>>
         THEN LET r == ParseParts(SubSeq(ls, 5, Len(ls)), b)
              IN  [ok |-> r.ok,
                   parts |-> <<[disp |-> DispositionName(ls[2]), hasType |-> FALSE,
                                type |-> <<>>, body |-> ls[4]]>> \o r.parts]
    ELSE IF Len(ls) >= 5 /\ ls[1] = Ascii(Dashes \o b) /\ WellFormedDisposition(ls[2])
            /\ IsPrefix(Ascii(ContentTypePrefix), ls[3]) /\ ls[4] = <<>>
         THEN LET r == ParseParts(SubSeq(ls, 6, Len(ls)), b)
              IN  [ok |-> r.ok,
                   parts |-> <<[disp |-> DispositionName(ls[2]), hasType |-> TRUE,
                                type |-> SubSeq(ls[3], Len(ContentTypePrefix) + 1, Len(ls[3])),
                                body |-> ls[5]]>> \o r.parts]
    ELSE [ok |-> FALSE, parts |-> <<>>]

\* The lines of the parts in the buffer of call c: all of them, but for the
\* two closing lines once the call has returned.
PartLines(c) ==
    IF pc[c] = "done" THEN SubSeq(lines[c], 1, Len(lines[c]) - 2) ELSE lines[c]

Parsed(c) == ParseParts(PartLines(c), boundary)

\* C9: at every point of a render call the buffer is a sequence of well-formed
\* parts, one for each value encoded so far and in that order: the boundary
\* line with the renderer's one token, one Content-Disposition line naming the
\* field, a Content-Type line exactly for a JSON or file part, an empty line
\* and one body line, which for a text part is the UTF-8 encoding of the text.
PartsWellFormed ==
    \A c \in Calls :
        LET p == Parsed(c)
            lv == PartLeaves(data[c])
        IN  /\ boundary = BoundaryToken
            /\ p.ok
            /\ Len(p.parts) <= Len(lv)
            /\ \A j \in 1..Len(p.parts) :
                /\ p.parts[j].disp.name = Utf8Encode(lv[j].key)
                /\ p.parts[j].hasType <=> lv[j].kind \in {"JSON", "FILE"}
                /\ lv[j].kind = "TEXT" =>
                      /\ p.parts[j].body = Utf8Encode(lv[j].val.text)
                      /\ p.parts[j].disp.rest = <<>>

\* A text part with a character outside ASCII is in the buffer.
PartsWellFormedWitness ==
    \E c \in Calls :
        /\ Len(Parsed(c).parts) >= 2
        /\ \E j \in 1..Len(Parsed(c).parts) :
              /\ PartLeaves(data[c])[j].kind = "TEXT"
              /\ Parsed(c).parts[j].body = <<65, 195, 169>>
        /\ \E j \in 1..Len(Parsed(c).parts) : PartLeaves(data[c])[j].kind = "FILE"

RECURSIVE Terminated(_)
\* Every line followed by CRLF, as on the wire.
Terminated(ls) == IF ls = <<>> THEN <<>> ELSE Head(ls) \o CRLF \o Terminated(Tail(ls))

\* The index in d of the field named by the bytes nm, 0 when there is none.
FieldIndex(d, nm) ==
    IF \E i \in 1..Len(d) : Utf8Encode(d[i].key) = nm
    THEN CHOOSE i \in 1..Len(d) : Utf8Encode(d[i].key) = nm
    ELSE 0

\* The bytes test_render_fields expects.
TestFieldsExpected ==
    LET b == Ascii(Dashes \o BoundaryToken)
        name(k) == Ascii(DispositionPrefix \o k \o Quote)
        json == Ascii(ContentTypePrefix \o ApplicationJson)
    IN  Join(CRLF,
             <<b, name(KeyTitle), <<>>, <<84, 101, 115, 116, 32, 73, 116, 101, 109>>,
               b, name(KeyTitle), json, <<>>,
               <<123, 34, 97, 34, 58, 51, 44, 34, 98, 34, 58, 50, 125>>,   \* {"a":3,"b":2}
               b, name(KeyDescription), <<>>,
               <<65, 32, 115, 105, 109, 112, 108, 101, 32, 116, 101, 115, 116>>,
               b, name(KeyNumber), json, <<>>, <<51, 51>>,
               Ascii(Dashes \o BoundaryToken \o Dashes), <<>> >>)

\* C2: a render that succeeds returns the CRLF join of the buffer, which holds
\* the parts of the fields in the mapping's order and then one closing
\* boundary line and one empty line: the output ends with the closing boundary
\* and CRLF, no boundary line follows the closing one, and no part of a later
\* field precedes a part of an earlier field.
RenderOutput ==
    \A c \in Calls :
        pc[c] = "done" =>
            LET n == Len(lines[c])
                closing == Ascii(Dashes \o BoundaryToken \o Dashes)
                p == Parsed(c)
            IN  /\ result[c].has
                /\ n >= 2
                /\ lines[c][n - 1] = closing
                /\ lines[c][n] = <<>>
                /\ \A i \in 1..(n - 2) :
                      lines[c][i] # closing /\ ~IsPrefix(closing, lines[c][i])
                /\ result[c].bytes = Terminated(SubSeq(lines[c], 1, n - 1))
                /\ IsSuffix(closing \o CRLF, result[c].bytes)
                /\ data[c] = <<>> => result[c].bytes = closing \o CRLF
                /\ data[c] = TestFieldsData => result[c].bytes = TestFieldsExpected
                /\ p.ok
                /\ Len(p.parts) = Len(LeavesOf(data[c]))
                /\ \A j \in 1..Len(p.parts) :
                      FieldIndex(data[c], p.parts[j].disp.name) = LeavesOf(data[c])[j].fi
                /\ \A j, k \in 1..Len(p.parts) :
                      j <= k => FieldIndex(data[c], p.parts[j].disp.name)
                                    <= FieldIndex(data[c], p.parts[k].disp.name)

\* A render of two fields has returned, the first field a collection of one
\* element: two parts, in the order of the fields.
RenderOutputWitness ==
    \E c \in Calls :
        /\ pc[c] = "done"
        /\ Len(data[c]) = 2
        /\ KindOf(data[c][1].val) = "REPEATED"
        /\ Len(Parsed(c).parts) = 2
        /\ FieldIndex(data[c], Parsed(c).parts[1].disp.name) = 1
        /\ FieldIndex(data[c], Parsed(c).parts[2].disp.name) = 2

\* The lines a step of call c appends to its buffer.
Appended(c) == SubSeq(lines'[c], Len(lines[c]) + 1, Len(lines'[c]))

\* Call c handles the value on top of its stack in this step.
Handles(c) ==
    /\ pc[c] = "run" /\ stack[c] # <<>>
    /\ <<stack[c], pc[c]>> # <<stack'[c], pc'[c]>>

\* The value on top of the stack of call c is an argument of add_lines: not a
\* list or tuple item of a collection.
Classified(c) ==
    ~(Head(stack[c]).elem /\ Head(stack[c]).val.cls \in ListClasses)

ClassifiedByFirstMatch(c) ==
    LET v == Head(stack[c]).val
        k == KindOf(v)
    IN  Handles(c) /\ Classified(c) =>
          /\ k = "TEXT" =>
                /\ Len(Appended(c)) = 4
                /\ Appended(c)[3] = <<>>
                /\ Appended(c)[4] = Utf8Encode(v.text)
                /\ streams' = streams
                /\ stack'[c] = Tail(stack[c]) /\ pc'[c] = "run"
          /\ k = "JSON" =>
                /\ Len(Appended(c)) = 5
                /\ Appended(c)[3] = Ascii(ContentTypePrefix \o ApplicationJson)
                /\ streams' = streams
                /\ stack'[c] = Tail(stack[c]) /\ pc'[c] = "run"
          /\ k = "FILE" =>
                /\ Len(Appended(c)) = 5
                /\ IsPrefix(Ascii(ContentTypePrefix), Appended(c)[3])
                /\ streams'[v.sid].reads = streams[v.sid].reads + 1
                /\ stack'[c] = Tail(stack[c]) /\ pc'[c] = "run"
          /\ k = "REPEATED" =>
                /\ Appended(c) = <<>>
                /\ streams' = streams
                /\ Len(stack'[c]) = Len(stack[c]) - 1 + Len(v.items)
                /\ pc'[c] = "run"
          /\ k = "FAIL" => Appended(c) = <<>> /\ pc'[c] = "raised"
          /\ k # "REPEATED" => Len(stack'[c]) <= Len(stack[c])

\* C1: every value passed to add_lines gets the kind of the first rule that
\* matches it, in the order text, JSON, file, repeated, failure: a text part,
\* a JSON part, a file part read from its stream, its items in place of it, or
\* the error; only a value of kind repeated is replaced by its items.
FirstMatchWins == [][\A c \in Calls : ClassifiedByFirstMatch(c)]_vars

\* A value that passes several tests has been encoded by the first: a str
\* with a read method, which is iterable as well, as one text part.
FirstMatchWinsWitness ==
    \E c \in Calls :
        /\ pc[c] = "done" /\ Len(data[c]) = 1 /\ data[c][1].val.cls = "StrReader"
        /\ Len(lines[c]) = 6 /\ lines[c][4] = <<65, 195, 169>>

\* The parts of call c that carry the name of field i.
PartsOfField(c, i) ==
    {j \in 1..Len(Parsed(c).parts) : FieldIndex(data[c], Parsed(c).parts[j].disp.name) = i}

\* C3, as the specification states it: a collection of N elements, of whatever
\* supported kinds, gives exactly N parts under its field name.
OnePartPerElement ==
    \A c \in Calls :
        pc[c] = "done" =>
            \A i \in 1..Len(data[c]) :
                KindOf(data[c][i].val) = "REPEATED" =>
                    Cardinality(PartsOfField(c, i)) = Len(data[c][i].val.items)

\* C4: a list or tuple that is an element of a collection, at whatever depth
\* the flattening meets it, is one JSON part under the collection's field name
\* whose body is the JSON of the whole element; a list or tuple that is the
\* value of a field is expanded: its field has the parts of its elements.
NestedListIsOneJsonPart ==
    \A c \in Calls :
        LET p == Parsed(c)
            lv == PartLeaves(data[c])
        IN  /\ p.ok /\ Len(p.parts) <= Len(lv)
            /\ pc[c] = "done" => Len(p.parts) = Len(lv)
            /\ \A j \in 1..Len(p.parts) :
                  lv[j].item =>
                      /\ p.parts[j].disp.name = Utf8Encode(lv[j].key)
                      /\ p.parts[j].hasType
                      /\ p.parts[j].type = Ascii(ApplicationJson)
                      /\ p.parts[j].body = to_bytes(JSONRender(lv[j].val))
            /\ pc[c] = "done" =>
                  \A i \in 1..Len(data[c]) :
                      data[c][i].val.cls \in ListClasses =>
                          Cardinality(PartsOfField(c, i))
                              = Len(LeavesOfItems(i, data[c][i].key, data[c][i].val.items))

\* A tuple met two generators deep in a list has become one JSON part, and
\* the list that is the field's value none of its own.
NestedListIsOneJsonPartWitness ==
    \E c \in Calls :
        /\ pc[c] = "done" /\ Len(data[c]) = 1
        /\ data[c][1].val.cls = "list"
        /\ Len(data[c][1].val.items) = 1
        /\ data[c][1].val.items[1].cls = "generator"
        /\ Len(Parsed(c).parts) = 1
        /\ Parsed(c).parts[1].body = <<91, 49, 93>>

\* The value that aborts call c: the first leaf no rule supports.
Offending(c) == LeavesOf(data[c])[FirstFail(LeavesOf(data[c]))]

\* C5, as the specification states it: the error carries the field name and
\* the runtime type of the offending value.
ErrorNamesFieldAndType ==
    \A c \in Calls :
        pc[c] = "raised" =>
            /\ Contains(error[c].msg, Offending(c).key)
            /\ Contains(error[c].msg, ClassInfo[Offending(c).val.cls].repr)

\* C5, amended: the error is a NotImplementedError whose message is made of
\* the runtime type of the offending value alone, "The <class '...'> type is
\* not supported"; the field name is not in it.
ErrorNamesTypeOnly ==
    \A c \in Calls :
        pc[c] = "raised" =>
            /\ FirstFail(LeavesOf(data[c])) > 0
            /\ error[c].exc = "NotImplementedError"
            /\ error[c].msg = MsgThe \o ClassOpen \o ClassInfo[Offending(c).val.cls].repr
                                  \o ClassClose \o MsgNotSupported
            /\ ~Contains(error[c].msg, Offending(c).key)

\* A render has raised for a function met as the second element of a
\* collection.
ErrorNamesTypeOnlyWitness ==
    \E c \in Calls :
        /\ pc[c] = "raised"
        /\ Offending(c).val.cls = "function"
        /\ Head(stack[c]).elem
        /\ Len(Parsed(c).parts) = 1

\* C6: a mapping with an unsupported value, at top level or met by the
\* flattening, makes render raise the unsupported-type error and return
\* nothing, whatever was already encoded; the loop over the fields does not go
\* past the offending field, and a render returns bytes only when no value is
\* unsupported.
AbortReturnsNothing ==
    \A c \in Calls :
        LET lv == LeavesOf(data[c])
            k == FirstFail(lv)
        IN  /\ pc[c] = "done" => k = 0
            /\ result[c].has => pc[c] = "done"
            /\ k > 0 => ~result[c].has /\ result[c].bytes = <<>>
            /\ pc[c] = "raised" =>
                  /\ k > 0
                  /\ error[c].exc = "NotImplementedError"
                  /\ Len(Parsed(c).parts) = k - 1
                  /\ idx[c] = lv[k].fi + 1
                  /\ \A i \in (lv[k].fi + 1)..Len(data[c]) : PartsOfField(c, i) = {}
            /\ pc[c] # "raised" => error[c] = NoError

\* A render has raised at its second field of three, the first already in the
\* buffer.
AbortReturnsNothingWitness ==
    \E c \in Calls :
        /\ pc[c] = "raised"
        /\ Len(data[c]) = 3 /\ idx[c] = 3
        /\ Len(lines[c]) = 5
        /\ ~result[c].has

\* The content type the specification gives a stream: its content_type
\* attribute if it has one; else, with a textual and non-empty name, the type
\* guessed from the base name; and application/octet-stream when that gives
\* nothing.
ClaimedContentType(f) ==
    LET chosen == IF f.ctype.kind # "absent"
                  THEN (IF f.ctype.kind = "str" THEN Some(f.ctype.s) ELSE None)
                  ELSE IF f.name.kind = "str" /\ f.name.s # <<>>
                       THEN GuessType(Basename(f.name.s))
                  ELSE None
    IN  IF chosen.some THEN chosen.s ELSE Ascii(OctetStream)

\* C7: the part of every file value has a Content-Type line, whose type is
\* chosen by that precedence.
FileContentType ==
    \A c \in Calls :
        LET p == Parsed(c)
            lv == PartLeaves(data[c])
        IN  \A j \in 1..Len(p.parts) :
                (j <= Len(lv) /\ lv[j].kind = "FILE") =>
                    /\ p.parts[j].hasType
                    /\ p.parts[j].type = Utf8Encode(ClaimedContentType(streams0[lv[j].val.sid]))

\* A stream with a content_type attribute and a name whose extension is known
\* has been encoded with the attribute's type.
FileContentTypeWitness ==
    \E c \in Calls :
        /\ pc[c] = "done" /\ Len(Parsed(c).parts) = 1
        /\ PartLeaves(data[c])[1].kind = "FILE"
        /\ streams0[1].ctype = Attr("str", <<116, 101, 120, 116, 47, 99, 115, 118>>)
        /\ streams0[1].name = Attr("str", <<102, 111, 111, 46, 106, 112, 103>>)
        /\ Parsed(c).parts[1].type = <<116, 101, 120, 116, 47, 99, 115, 118>>
        /\ Parsed(c).parts[1].body # <<>>

\* The leaves among the first n of lv that are file values reading stream s.
Occurrences(lv, s, n) ==
    {j \in 1..n : lv[j].kind = "FILE" /\ lv[j].val.sid = s}

\* C10: when a render has aborted, every stream met before the failure has
\* been read to its end, once for each time it was met, and every other stream
\* is as it was; when a render has returned, every stream of the mapping has
\* been read once for each time it occurs and is at its end, the first part of
\* a stream holds the bytes that remained and every later part of it is empty.
ReadsAreNotUndone ==
    \A c \in Calls :
        pc[c] \in {"raised", "done"} =>
            LET lv == LeavesOf(data[c])
                n == IF pc[c] = "done" THEN Len(lv) ELSE FirstFail(lv) - 1
                p == Parsed(c)
            IN  /\ \A s \in DOMAIN streams :
                      IF Occurrences(lv, s, n) = {}
                      THEN streams[s] = streams0[s]
                      ELSE /\ streams[s].pos = Len(streams[s].content)
                           /\ streams[s].reads = Cardinality(Occurrences(lv, s, n))
                           /\ streams[s].content = streams0[s].content
                /\ Len(p.parts) = n
                /\ \A j \in 1..n :
                      lv[j].kind = "FILE" =>
                          LET s == lv[j].val.sid
                          IN  p.parts[j].body =
                                  IF \A k \in Occurrences(lv, s, n) : j <= k
                                  THEN SubSeq(streams0[s].content, streams0[s].pos + 1,
                                              Len(streams0[s].content))
                                  ELSE <<>>

\* A render has aborted between two streams: the one before the failure is
\* at its end, the one after it untouched.
ReadsAreNotUndoneWitness ==
    \E c \in Calls :
        /\ pc[c] = "raised"
        /\ streams[1].reads = 1 /\ streams[1].pos = Len(streams[1].content)
        /\ streams[1].pos # streams0[1].pos
        /\ streams[2] = streams0[2]
        /\ \E j \in 1..Len(LeavesOf(data[c])) :
              /\ j > FirstFail(LeavesOf(data[c]))
              /\ LeavesOf(data[c])[j].kind = "FILE"
              /\ LeavesOf(data[c])[j].val.sid = 2

(***************************************************************************)
(* A render call run alone, from its first line to its last: add_lines as  *)
(* the recursive function it is, on the record r of the buffer, the        *)
(* streams and the exception raised so far.                                *)
(***************************************************************************)
RECURSIVE AloneValue(_, _, _, _)
RECURSIVE AloneItems(_, _, _)
AloneValue(r, key, val, isItem) ==
    IF r.error # NoError THEN r
    ELSE LET br == Branch(Frame(key, val, isItem))
         IN  IF br = "str"
             THEN [r EXCEPT !.lines = @ \o encode_str(boundary, key, val)]
             ELSE IF br = "json"
             THEN [r EXCEPT !.lines = @ \o encode_json(boundary, key, val)]
             ELSE IF br = "file"
             THEN [r EXCEPT !.lines = @ \o encode_file(boundary, key, r.streams[val.sid]),
                            !.streams[val.sid] = AfterRead(@)]
             ELSE IF br = "iter" THEN AloneItems(r, key, val.items)
             ELSE [r EXCEPT !.error = [exc |-> "NotImplementedError",
                                       msg |-> UnsupportedMessage(key, val)]]
AloneItems(r, key, items) ==
    IF items = <<>> THEN r
    ELSE AloneItems(AloneValue(r, key, Head(items), TRUE), key, Tail(items))

RECURSIVE AloneFields(_, _, _)
AloneFields(r, d, i) ==
    IF i > Len(d) THEN r
    ELSE AloneFields(AloneValue(r, d[i].key, d[i].val, FALSE), d, i + 1)

\* What render(d) gives when nothing else runs, on the streams ss: what it
\* returns, what it raises, and the buffer it filled until then.
RenderAlone(d, ss) ==
    LET r == AloneFields([lines |-> <<>>, streams |-> ss, error |-> NoError], d, 1)
    IN  IF r.error # NoError
        THEN [result |-> NoResult, error |-> r.error, lines |-> r.lines]
        ELSE [result |-> [has |-> TRUE,
                          bytes |-> Join(CRLF, r.lines \o ClosingLines(boundary))],
              error |-> NoError, lines |-> r.lines]

\* C8: of two render calls on one renderer, each with its own mapping and its
\* own streams, each returns, or raises, exactly what it would when run alone,
\* however their steps interleave, and the renderer's boundary stays what it
\* was.
ConcurrentCallsAreIsolated ==
    /\ boundary = BoundaryToken
    /\ \A c \in Calls :
          LET alone == RenderAlone(data[c], streams0)
          IN  /\ pc[c] = "done" => result[c] = alone.result /\ result[c].has
              /\ pc[c] = "raised" =>
                    error[c] = alone.error /\ error[c] # NoError /\ result[c] = NoResult
              /\ pc[c] = "run" => result[c] = NoResult /\ IsPrefix(lines[c], alone.lines)

\* The first call has returned a part read from its stream while the second,
\* which has read its own stream into its buffer, is still to return.
ConcurrentCallsAreIsolatedWitness ==
    /\ Calls = {1, 2}
    /\ pc[1] = "done" /\ pc[2] = "run"
    /\ Len(lines[2]) = 5
    /\ streams[1].reads = 1 /\ streams[2].reads = 1
    /\ Len(lines[1]) = 7
    /\ result[1].bytes # <<>>

=============================================================================
